---- MODULE Spec2Model ----
(***************************************************************************)
(* tf2rl/policies/tfp_categorical_actor.py: CategoricalActor and           *)
(* CategoricalActorCritic.                                                 *)
(*                                                                         *)
(* One policy object is constructed and then used through its public      *)
(* operations.  Tensors are sequences: a batch is a sequence of vectors.   *)
(* float32 numbers are integers for the layer arithmetic; the values the   *)
(* probability library returns are kept as exact terms (softmax(z),        *)
(* prob(a | logits), log_prob(a | logits), entropy(logits)), ordered and   *)
(* compared by the identities that hold of the reals they denote.          *)
(***************************************************************************)
EXTENDS Integers, Sequences, FiniteSets, TLC

VARIABLES self, phase, ctor, op, args, result, dist, applied, passes

vars == <<self, phase, ctor, op, args, result, dist, applied, passes>>

----------------------------------------------------------------------------
(* Bounds of the model. *)

MaxActionDim == 3
MaxLayers == 2

\* sizes a hidden layer may have, dimensions a state may have, values of a
\* state's entries, sizes of a batch, seeds of the kernel initialiser
LayerSizes == {1, 2}
StateDims == {1, 2}
StateVals == {0, 1}
BatchSizes == {1, 2}
Seeds == {0, 1}

\* the units tuples: 0..MaxLayers layer sizes
UnitsChoices == UNION {[1..n -> LayerSizes] : n \in 0..MaxLayers}

\* a state of shape (n,): here the vectors with all entries equal
StateVectors(n) == {[i \in 1..n |-> c] : c \in StateVals}

\* batches of states of shape (n,)
Batches(n) == UNION {[1..b -> StateVectors(n)] : b \in BatchSizes}

\* batches of integer action indices for a batch of b states
ActionBatches(b, K) == [1..b -> 0..(K - 1)]

----------------------------------------------------------------------------
(* tf.keras.layers.Dense *)

\* Dense(units, activation): created unbuilt, no kernel yet
Dense(units, activation) ==
    [units |-> units, activation |-> activation, built |-> FALSE, kernel |-> <<>>]

NoLayer == [units |-> 0, activation |-> "", built |-> FALSE, kernel |-> <<>>]

\* the kernel initialiser: the entry (i, j) of the kernel of the idx-th layer
\* created under the random seed; entries lie in -1..1
KernelInit(seed, idx, i, j) == ((seed + idx + i + 2 * j) % 3) - 1

\* the first application of a layer builds it for the input's last dimension
Build(layer, idx, nin, seed) ==
    IF layer.built THEN layer
    ELSE [layer EXCEPT !.built = TRUE,
                       !.kernel = [i \in 1..nin |->
                                     [j \in 1..layer.units |-> KernelInit(seed, idx, i, j)]]]

RECURSIVE Dot(_, _, _, _)
Dot(x, kernel, j, n) ==
    IF n = 0 THEN 0 ELSE Dot(x, kernel, j, n - 1) + x[n] * kernel[n][j]

\* softmax(z) is kept as a term: its entries are exp(z[i]) / sum_j exp(z[j])
Softmax(z) == [fn |-> "softmax", z |-> z]

Activation(name, pre) ==
    CASE name = "relu" -> [j \in 1..Len(pre) |-> IF pre[j] > 0 THEN pre[j] ELSE 0]
      [] name = "softmax" -> Softmax(pre)
      [] OTHER -> pre

\* a built layer applied to a batch: activation(x . kernel), the bias being
\* zero-initialised and never trained here
DenseCall(layer, x) ==
    [b \in 1..Len(x) |->
        Activation(layer.activation,
                   [j \in 1..layer.units |-> Dot(x[b], layer.kernel, j, Len(x[b]))])]

Dim(x) == Len(x[1])

----------------------------------------------------------------------------
(* tfp.distributions.Categorical *)

\* Categorical(logits=None, probs=None, ...): the first positional argument
\* is logits; one distribution per batch entry
Categorical(first) == [logits |-> first]

\* number of categories of the b-th distribution of the batch
NumCategories(d, b) == Len(d.logits[b].z)

\* p(i) <= p(j) under the b-th distribution: p = softmax(logits) and
\* logits = softmax(z), both strictly increasing, so the order is that of z
\* (categories are 0-based, sequences 1-based)
PmfLeq(d, b, i, j) == d.logits[b].z[i + 1] <= d.logits[b].z[j + 1]

\* softmax is strictly positive: every category has non-zero probability
Support(d, b) == 0..(NumCategories(d, b) - 1)

\* a sampler that is off by one: indices 1..K
sample_from_one(d) ==
    [1..Len(d.logits) -> UNION {1..NumCategories(d, b) : b \in 1..Len(d.logits)}]

\* dist.sample(): one index per batch entry, each drawn from the support
sample(d) ==
    {a \in [1..Len(d.logits) -> UNION {Support(d, b) : b \in 1..Len(d.logits)}] :
        \A b \in 1..Len(d.logits) : a[b] \in Support(d, b)}

\* dist.prob(x): the probability of x[b] under the b-th distribution
prob(d, x) ==
    [b \in 1..Len(x) |-> [fn |-> "prob", logits |-> d.logits[b], x |-> x[b]]]

\* dist.log_prob(x): the logarithm of prob
log_prob(d, x) ==
    [b \in 1..Len(x) |-> [fn |-> "log_prob", logits |-> d.logits[b], x |-> x[b]]]

\* dist.entropy()
entropy(d) ==
    [b \in 1..Len(d.logits) |-> [fn |-> "entropy", logits |-> d.logits[b], x |-> 0]]

\* dist.mean(): Categorical defines no _mean, so Distribution.mean() raises
mean(d) == [ok |-> FALSE, error |-> "NotImplementedError", value |-> <<>>]

\* dist[key]: Distribution.__getitem__ slices the batch axes of the
\* distribution; the string "prob" is no slice, and the lookup raises
getitem(d, key) == [ok |-> FALSE, error |-> "TypeError", value |-> <<>>]

\* tf.one_hot(indices, depth) of a batch of indices
one_hot(indices, depth) ==
    [b \in 1..Len(indices) |-> [k \in 1..depth |-> IF indices[b] = k - 1 THEN 1 ELSE 0]]

NoDist == Categorical(<<>>)

----------------------------------------------------------------------------
(* Python objects: attributes, outcomes of a call *)

\* the names a class defines (its methods), the base class's included
ClassAttrs(cls) ==
    {"__init__", "_compute_dist", "compute_prob", "call", "compute_entropy",
     "compute_log_probs"}

\* self.<name> resolves: assigned on the instance or defined by the class
HasAttr(s, name) == name \in s.attrs \cup ClassAttrs(s.cls)

NoObject ==
    [cls |-> "", attrs |-> {}, action_dim |-> 0, state_shape |-> 0, seed |-> 0,
     base_layers |-> <<>>, out_prob |-> NoLayer, v |-> NoLayer]

NoResult ==
    [status |-> "none", error |-> "", attr |-> "", action |-> <<>>,
     log_prob |-> <<>>, value |-> <<>>]

\* a return; the fields a return statement does not give stay empty
Returned(action, logp, value) ==
    [status |-> "returned", error |-> "", attr |-> "", action |-> action,
     log_prob |-> logp, value |-> value]

Raised(error, attr) ==
    [status |-> "raised", error |-> error, attr |-> attr, action |-> <<>>,
     log_prob |-> <<>>, value |-> <<>>]

\* what an operation leaves behind: the object, what it returned or raised,
\* the distribution it computed, the layers it applied and the forward passes
\* (invocations of call) it made, in order
Outcome(s, ret, d, app, pss) ==
    [self |-> s, ret |-> ret, dist |-> d, applied |-> app, passes |-> pss]

Pass(method, states, test, ret) ==
    [method |-> method, states |-> states, test |-> test, ret |-> ret]

LayerRef(attr, idx) == [attr |-> attr, idx |-> idx]

----------------------------------------------------------------------------
(* CategoricalActor *)

\* the hidden layers created in the reverse of the order of units
MakeBaseLayersReversed(units, hidden_activation) ==
    [k \in 1..Len(units) |-> Dense(units[Len(units) + 1 - k], hidden_activation)]

\* __init__, lines 13-18: one hidden layer per entry of units, in the order
\* of units
MakeBaseLayers(units, hidden_activation) ==
    [k \in 1..Len(units) |-> Dense(units[k], hidden_activation)]

\* _compute_dist, lines 32-35: the loop over base_layers after k rounds: the
\* features, the layers applied (each built by its first application) and
\* the order of the applications
RECURSIVE Forward(_, _, _, _)
Forward(layers, k, states, seed) ==
    IF k = 0 THEN [features |-> states, layers |-> <<>>, applied |-> <<>>]
    ELSE LET prev == Forward(layers, k - 1, states, seed)
             cur_layer == Build(layers[k], k, Dim(prev.features), seed)
         IN [features |-> DenseCall(cur_layer, prev.features),
             layers |-> Append(prev.layers, cur_layer),
             applied |-> Append(prev.applied, LayerRef("base_layers", k))]

\* _compute_dist(states): the hidden layers in order, then the softmax layer,
\* and the categorical distribution made of its output
compute_dist(s, states) ==
    LET n == Len(s.base_layers)
        fw == Forward(s.base_layers, n, states, s.seed)
        out == Build(s.out_prob, n + 1, Dim(fw.features), s.seed)
        probs == DenseCall(out, fw.features)
    IN [self |-> [s EXCEPT !.base_layers = fw.layers, !.out_prob = out],
        dist |-> Categorical(probs),
        applied |-> Append(fw.applied, LayerRef("out_prob", 0))]

\* CategoricalActor.call(states, test): the outcomes it can have
ActorCall(s, states, test) ==
    LET cd == compute_dist(s, states)
        m == mean(cd.dist)
        rets == IF test
                THEN IF m.ok THEN {Returned(m.value, prob(cd.dist, m.value), <<>>)}
                     ELSE {Raised(m.error, "")}
                ELSE {Returned(action, prob(cd.dist, action), <<>>) :
                         action \in sample(cd.dist)}
    IN {Outcome(cd.self, ret, cd.dist, cd.applied,
                <<Pass("CategoricalActor.call", states, test, ret)>>) : ret \in rets}

\* the attributes of self that CategoricalActorCritic.call reads, in the
\* order the interpreter evaluates them
CriticCallReads == <<"_compute_feature", "prob", "dist", "action_dim", "v">>

\* CategoricalActorCritic.call(states, test): it raises AttributeError at the
\* first attribute that does not resolve.  _compute_feature, prob and dist are
\* assigned nowhere and defined by neither class.
CriticCall(s, states, test) ==
    LET missing == SelectSeq(CriticCallReads, LAMBDA a : ~HasAttr(s, a))
        ret == Raised("AttributeError", Head(missing))
    IN {Outcome(s, ret, NoDist, <<>>,
                <<Pass("CategoricalActorCritic.call", states, test, ret)>>)}

\* self(states, test): Model.__call__ dispatches to call of the object's class
call(s, states, test) ==
    IF s.cls = "CategoricalActorCritic"
    THEN CriticCall(s, states, test)
    ELSE ActorCall(s, states, test)

\* np.zeros(shape=(1,)+state_shape)
Zeros(n) == <<[i \in 1..n |-> 0]>>

\* CategoricalActor.__init__ on the object s: the attributes, then one forward
\* pass self(zeros) whose return value is dropped
ActorInit(s, state_shape, action_dim, units) ==
    LET s1 == [s EXCEPT !.action_dim = action_dim,
                        !.state_shape = state_shape,
                        !.base_layers = MakeBaseLayers(units, "relu"),
                        !.out_prob = Dense(action_dim, "softmax"),
                        !.attrs = @ \cup {"action_dim", "base_layers", "out_prob"}]
    IN {[o EXCEPT !.ret = IF o.ret.status = "raised" THEN o.ret
                          ELSE Returned(<<>>, <<>>, <<>>)] :
            o \in call(s1, Zeros(state_shape), FALSE)}

\* CategoricalActorCritic.__init__: the value head, then the base constructor
CriticInit(s, state_shape, action_dim, units) ==
    LET s1 == [s EXCEPT !.v = Dense(1, "linear"), !.attrs = @ \cup {"v"}]
    IN ActorInit(s1, state_shape, action_dim, units)

\* compute_prob(states)
compute_prob(s, states) ==
    LET cd == compute_dist(s, states)
        g == getitem(cd.dist, "prob")
    IN IF g.ok
       THEN Outcome(cd.self, Returned(<<>>, <<>>, g.value), cd.dist, cd.applied, <<>>)
       ELSE Outcome(cd.self, Raised(g.error, ""), cd.dist, cd.applied, <<>>)

\* compute_entropy(states)
compute_entropy(s, states) ==
    LET cd == compute_dist(s, states)
    IN Outcome(cd.self, Returned(<<>>, <<>>, entropy(cd.dist)), cd.dist, cd.applied, <<>>)

\* compute_log_probs(states, actions): param is the distribution; the first
\* param["prob"] (line 78) raises before self.dist (line 85) is read
compute_log_probs(s, states, actions) ==
    LET param == compute_dist(s, states)
        onehot == one_hot(actions, s.action_dim)
        g == getitem(param.dist, "prob")
    IN IF ~g.ok
       THEN Outcome(param.self, Raised(g.error, ""), param.dist, param.applied, <<>>)
       ELSE IF ~HasAttr(s, "dist")
            THEN Outcome(param.self, Raised("AttributeError", "dist"),
                         param.dist, param.applied, <<>>)
            ELSE Outcome(param.self, Returned(<<>>, log_prob(param.dist, actions), <<>>),
                         param.dist, param.applied, <<>>)

----------------------------------------------------------------------------
(* The state machine *)

NoArgs == [states |-> <<>>, test |-> FALSE, actions |-> <<>>]

NoCtor == [state_shape |-> 0, action_dim |-> 0, units |-> <<>>]

Init ==
    /\ self = NoObject
    /\ phase = "none"
    /\ ctor = NoCtor
    /\ op = ""
    /\ args = NoArgs
    /\ result = NoResult
    /\ dist = NoDist
    /\ applied = <<>>
    /\ passes = <<>>

\* an operation has run to its outcome o
Finish(o) ==
    /\ self' = o.self
    /\ result' = o.ret
    /\ dist' = o.dist
    /\ applied' = o.applied
    /\ passes' = o.passes

\* an object whose constructor raised is bound to no name
Construct(cls, name, outcomes, state_shape, action_dim, units) ==
    /\ phase = "none"
    /\ \E o \in outcomes :
          /\ Finish(o)
          /\ phase' = IF o.ret.status = "returned" THEN "ready" ELSE "failed"
    /\ op' = name
    /\ ctor' = [state_shape |-> state_shape, action_dim |-> action_dim, units |-> units]
    /\ args' = NoArgs

NewCategoricalActor ==
    \E n \in StateDims, K \in 1..MaxActionDim, units \in UnitsChoices, seed \in Seeds :
        Construct("CategoricalActor", "CategoricalActor.__init__",
                  ActorInit([NoObject EXCEPT !.cls = "CategoricalActor", !.seed = seed],
                            n, K, units),
                  n, K, units)

NewCategoricalActorCritic ==
    \E n \in StateDims, K \in 1..MaxActionDim, units \in UnitsChoices, seed \in Seeds :
        Construct("CategoricalActorCritic", "CategoricalActorCritic.__init__",
                  CriticInit([NoObject EXCEPT !.cls = "CategoricalActorCritic", !.seed = seed],
                             n, K, units),
                  n, K, units)

Call ==
    /\ phase = "ready"
    /\ \E states \in Batches(self.state_shape), test \in BOOLEAN :
          /\ \E o \in call(self, states, test) : Finish(o)
          /\ args' = [NoArgs EXCEPT !.states = states, !.test = test]
    /\ op' = "call"
    /\ UNCHANGED <<phase, ctor>>

ComputeProb ==
    /\ phase = "ready"
    /\ \E states \in Batches(self.state_shape) :
          /\ Finish(compute_prob(self, states))
          /\ args' = [NoArgs EXCEPT !.states = states]
    /\ op' = "compute_prob"
    /\ UNCHANGED <<phase, ctor>>

ComputeEntropy ==
    /\ phase = "ready"
    /\ \E states \in Batches(self.state_shape) :
          /\ Finish(compute_entropy(self, states))
          /\ args' = [NoArgs EXCEPT !.states = states]
    /\ op' = "compute_entropy"
    /\ UNCHANGED <<phase, ctor>>

ComputeLogProbs ==
    /\ phase = "ready"
    /\ \E states \in Batches(self.state_shape) :
          \E actions \in ActionBatches(Len(states), self.action_dim) :
             /\ Finish(compute_log_probs(self, states, actions))
             /\ args' = [NoArgs EXCEPT !.states = states, !.actions = actions]
    /\ op' = "compute_log_probs"
    /\ UNCHANGED <<phase, ctor>>

Next ==
    \/ NewCategoricalActor
    \/ NewCategoricalActorCritic
    \/ Call
    \/ ComputeProb
    \/ ComputeEntropy
    \/ ComputeLogProbs

Spec == Init /\ [][Next]_vars

----------------------------------------------------------------------------
(* Properties *)

\* the forward passes of the last operation, as a set
PassesMade == {passes[k] : k \in 1..Len(passes)}

ActorPasses == {p \in PassesMade : p.method = "CategoricalActor.call"}

CriticPasses == {p \in PassesMade : p.method = "CategoricalActorCritic.call"}

\* a of 0..K-1 has maximal probability under the b-th distribution
IsGreedy(d, b, a) ==
    /\ a \in Support(d, b)
    /\ \A i \in Support(d, b) : PmfLeq(d, b, i, a)

\* C1: every call of CategoricalActor.call that returns gives, as its second
\* value, the log-probability of the returned action under the distribution
\* computed from the states.  (A prob term denotes a number in (0, 1], a
\* log_prob term a number <= 0: terms of the two kinds are never equal.)
C1_SecondValueIsLogProb ==
    \A p \in ActorPasses :
        p.ret.status = "returned" => p.ret.log_prob = log_prob(dist, p.ret.action)

\* C2: CategoricalActor.call returns: with test=True an action of maximal
\* probability for each state, with test=False an action of the support of
\* the distribution of each state.
C2_GreedyOrSampled ==
    \A p \in ActorPasses :
        /\ p.ret.status = "returned"
        /\ Len(p.ret.action) = Len(p.states)
        /\ \A b \in 1..Len(p.states) :
              IF p.test THEN IsGreedy(dist, b, p.ret.action[b])
              ELSE p.ret.action[b] \in Support(dist, b)

\* C3: every action CategoricalActor.call returns is an integer of
\* 0..action_dim-1, for every state of the batch, and every distribution
\* _compute_dist makes has action_dim categories, whatever units is.
C3_ActionInRange ==
    /\ \A p \in ActorPasses :
          p.ret.status = "returned" =>
             /\ Len(p.ret.action) = Len(p.states)
             /\ \A b \in 1..Len(p.states) : p.ret.action[b] \in 0..(ctor.action_dim - 1)
    /\ dist # NoDist =>
          \A b \in 1..Len(dist.logits) : NumCategories(dist, b) = ctor.action_dim

\* C3's case: a batch of two states, no hidden layer, the last action index
C3_Witness ==
    /\ op = "call"
    /\ ctor.units = <<>>
    /\ ctor.action_dim = MaxActionDim
    /\ \E p \in ActorPasses :
          /\ p.ret.status = "returned"
          /\ Len(p.states) = 2
          /\ p.ret.action[1] = 0
          /\ p.ret.action[2] = ctor.action_dim - 1

\* C4: CategoricalActorCritic.call returns a triple: an action per state
\* (greedy with test=True, of 0..action_dim-1 otherwise), the log-probability
\* of that action, and one value estimate per state.
C4_CriticReturnsTriple ==
    \A p \in CriticPasses :
        /\ p.ret.status = "returned"
        /\ Len(p.ret.action) = Len(p.states)
        /\ Len(p.ret.value) = Len(p.states)
        /\ \A b \in 1..Len(p.states) : p.ret.action[b] \in 0..(ctor.action_dim - 1)
        /\ p.ret.log_prob = log_prob(dist, p.ret.action)
        /\ p.test => \A b \in 1..Len(p.states) : IsGreedy(dist, b, p.ret.action[b])

\* C5: compute_log_probs(states, actions) completes and returns, for each
\* (state, action) pair, the log-probability of the action under the
\* distribution computed from the state.
C5_LogProbsOfGivenActions ==
    op = "compute_log_probs" =>
        /\ result.status = "returned"
        /\ result.log_prob = log_prob(dist, args.actions)

\* C6: compute_prob(states) completes and returns, for each state, the
\* probability vector the softmax layer outputs for it.
C6_ProbOfStates ==
    op = "compute_prob" =>
        /\ result.status = "returned"
        /\ result.value = dist.logits

\* C7: constructing a CategoricalActorCritic completes: the warm-up forward
\* pass returns, and the value head and the policy head are built.
C7_CriticConstructs ==
    op = "CategoricalActorCritic.__init__" =>
        /\ phase = "ready"
        /\ result.status = "returned"
        /\ self.v.built
        /\ self.out_prob.built

\* the number of applications of a layer in the last operation
TimesApplied(ref) == Cardinality({k \in 1..Len(applied) : applied[k] = ref})

\* C8: when CategoricalActor(state_shape, action_dim, units) returns there is
\* one hidden layer per entry of units, in that order, and one softmax layer
\* of size action_dim; exactly one forward pass ran, in sampling mode, on one
\* zero state of shape state_shape; it applied the hidden layers in the order
\* of units and the output layer last, each layer once, and each is built.
C8_ConstructorBuildsInOrder ==
    op = "CategoricalActor.__init__" =>
        /\ phase = "ready"
        /\ Len(self.base_layers) = Len(ctor.units)
        /\ \A k \in 1..Len(ctor.units) :
              /\ self.base_layers[k].units = ctor.units[k]
              /\ self.base_layers[k].built
              /\ TimesApplied(LayerRef("base_layers", k)) = 1
              /\ applied[k] = LayerRef("base_layers", k)
        /\ self.out_prob.units = ctor.action_dim
        /\ self.out_prob.activation = "softmax"
        /\ self.out_prob.built
        /\ TimesApplied(LayerRef("out_prob", 0)) = 1
        /\ applied[Len(applied)] = LayerRef("out_prob", 0)
        /\ Len(applied) = Len(ctor.units) + 1
        /\ Len(passes) = 1
        /\ passes[1].test = FALSE
        /\ passes[1].states = Zeros(ctor.state_shape)

\* C8's case: a constructor that returned, two hidden layers of unlike sizes
C8_Witness ==
    /\ op = "CategoricalActor.__init__"
    /\ phase = "ready"
    /\ ctor.units = <<1, 2>>
    /\ applied = <<LayerRef("base_layers", 1), LayerRef("base_layers", 2),
                   LayerRef("out_prob", 0)>>

\* C9: no operation, the call made inside a constructor included, reads an
\* attribute of self that is neither assigned nor defined by the class.
C9_NoUndefinedAttribute ==
    /\ result.error # "AttributeError"
    /\ \A p \in PassesMade : p.ret.error # "AttributeError"

====
